---- MODULE Spec2Model ----
(***************************************************************************)
(* Model of mcp-llm-db (src/main.py): the text-to-SQL request pipeline     *)
(* query_db_impl and its validation gate _clean_and_validate_sql.          *)
(*                                                                         *)
(* A Python str is a sequence of one-character strings, so that the        *)
(* string operations of the code (strip, rstrip, lower, startswith, the    *)
(* two regular expressions) are computed character by character.           *)
(***************************************************************************)
EXTENDS Integers, Sequences, FiniteSets, TLC

(***************************************************************************)
(* Bounds of the model.                                                    *)
(***************************************************************************)
\* A model output is a concatenation of at most MaxFrags fragments of Frags.
MaxFrags == 4
\* Number of requests running concurrently in SpecConc.
NReq == 2
\* The database returns at most MaxRows rows.
MaxRows == 1

(***************************************************************************)
(* Characters.                                                             *)
(***************************************************************************)
UpperChars ==
    <<"A","B","C","D","E","F","G","H","I","J","K","L","M",
      "N","O","P","Q","R","S","T","U","V","W","X","Y","Z">>
LowerChars ==
    <<"a","b","c","d","e","f","g","h","i","j","k","l","m",
      "n","o","p","q","r","s","t","u","v","w","x","y","z">>
Letters == {UpperChars[i] : i \in 1..26} \cup {LowerChars[i] : i \in 1..26}
Digits == {"0","1","2","3","4","5","6","7","8","9"}
\* str.strip() and the regex class \s
Whitespace == {" ", "\n", "\t", "\r"}
\* the regex class \w
WordChars == Letters \cup Digits \cup {"_"}
\* The backquote character U+0060, three of which make a fence marker. The
\* character cannot be written inside a TLA+ string, so this token stands for it.
BT == "<backquote>"
Alphabet == WordChars \cup Whitespace \cup {";", BT, "*", ",", "(", ")"}

\* str.lower() on one character; also the case folding of re.IGNORECASE
LowerTab ==
    [c \in Alphabet |->
        IF \E i \in 1..26 : UpperChars[i] = c
        THEN LowerChars[CHOOSE i \in 1..26 : UpperChars[i] = c]
        ELSE c]
Lower(c) == LowerTab[c]
LowerStr(s) == [i \in 1..Len(s) |-> Lower(s[i])]

(***************************************************************************)
(* str methods.                                                            *)
(***************************************************************************)
\* s[a:b] with 0-based, end-exclusive Python indices, 0 <= a, b
Slice(s, a, b) ==
    IF b <= a \/ a >= Len(s) THEN <<>>
    ELSE SubSeq(s, a + 1, IF b > Len(s) THEN Len(s) ELSE b)

RECURSIVE LStrip(_)
LStrip(s) ==
    IF s # <<>> /\ Head(s) \in Whitespace THEN LStrip(Tail(s)) ELSE s

RECURSIVE RStrip(_)
RStrip(s) ==
    IF s # <<>> /\ s[Len(s)] \in Whitespace
    THEN RStrip(SubSeq(s, 1, Len(s) - 1)) ELSE s

\* str.strip()
Strip(s) == RStrip(LStrip(s))

\* str.startswith(p)
StartsWith(s, p) == Len(s) >= Len(p) /\ SubSeq(s, 1, Len(p)) = p

\* c in s
Contains(s, c) == \E i \in 1..Len(s) : s[i] = c

\* RStripSemi with a fault: only one trailing ';' is removed.
RStripOneSemi(s) ==
    IF s # <<>> /\ s[Len(s)] = ";" THEN SubSeq(s, 1, Len(s) - 1) ELSE s

\* str.rstrip(";"): every trailing ';' is removed
RECURSIVE RStripSemi(_)
RStripSemi(s) ==
    IF s # <<>> /\ s[Len(s)] = ";"
    THEN RStripSemi(SubSeq(s, 1, Len(s) - 1)) ELSE s

(***************************************************************************)
(* The fence pattern of _strip_code_fences (main.py:64),                   *)
(*   ^```(?:sql)?\s*|\s*```$   with re.IGNORECASE | re.MULTILINE.          *)
(* Positions are 0-based offsets into s, as in the re module; the          *)
(* character at offset p is s[p + 1].                                      *)
(***************************************************************************)
\* ^ under re.MULTILINE
AtLineStart(s, p) == p = 0 \/ s[p] = "\n"
\* $ under re.MULTILINE
AtLineEnd(s, p) == p = Len(s) \/ s[p + 1] = "\n"
\* the literal ``` at offset p
FenceAt(s, p) ==
    p + 3 <= Len(s) /\ s[p + 1] = BT /\ s[p + 2] = BT /\ s[p + 3] = BT
\* length of the whitespace run at offset p: what a greedy \s* takes first
RECURSIVE SpaceRun(_, _)
SpaceRun(s, p) ==
    IF p < Len(s) /\ s[p + 1] \in Whitespace THEN 1 + SpaceRun(s, p + 1) ELSE 0
\* (?:sql)? at offset p, case-insensitively: the offset after it
AfterSqlTag(s, p) ==
    IF LowerStr(Slice(s, p, p + 3)) = <<"s", "q", "l">> THEN p + 3 ELSE p
\* first alternative ^```(?:sql)?\s* at offset p: end offset of the match, or -1
Alt1End(s, p) ==
    IF AtLineStart(s, p) /\ FenceAt(s, p)
    THEN LET q == AfterSqlTag(s, p + 3) IN q + SpaceRun(s, q)
    ELSE -1
\* second alternative \s*```$ at offset p: \s* is greedy and backtracks
Alt2End(s, p) ==
    LET ks == {k \in 0..SpaceRun(s, p) :
                 FenceAt(s, p + k) /\ AtLineEnd(s, p + k + 3)}
    IN  IF ks = {} THEN -1
        ELSE p + 3 + (CHOOSE k \in ks : \A j \in ks : j <= k)
\* the alternation is ordered: the first alternative that matches wins
FenceMatchEnd(s, p) ==
    IF Alt1End(s, p) # -1 THEN Alt1End(s, p) ELSE Alt2End(s, p)
\* re.sub(pattern, "", s) from offset p on: one left-to-right pass, every
\* non-overlapping match deleted, matching always against the original s
RECURSIVE FenceSub(_, _)
FenceSub(s, p) ==
    IF p >= Len(s) THEN <<>>
    ELSE LET e == FenceMatchEnd(s, p)
         IN  IF e # -1 THEN FenceSub(s, e)
             ELSE <<s[p + 1]>> \o FenceSub(s, p + 1)

strip_code_fences(s) == FenceSub(Strip(s), 0)

(***************************************************************************)
(* FORBIDDEN (main.py:27),                                                 *)
(*   \b(INSERT|UPDATE|DELETE|DROP|ALTER|TRUNCATE|CREATE)\b, re.IGNORECASE  *)
(***************************************************************************)
ForbiddenWords ==
    { <<"I","N","S","E","R","T">>, <<"U","P","D","A","T","E">>,
      <<"D","E","L","E","T","E">>, <<"D","R","O","P">>,
      <<"A","L","T","E","R">>, <<"T","R","U","N","C","A","T","E">>,
      <<"C","R","E","A","T","E">> }
\* WordBoundary with a fault: the pattern without its \b anchors.
NoWordBoundary(s, p) == p >= 0 /\ p <= Len(s)

\* \b at offset p: exactly one of the characters around p is a word character
WordBoundary(s, p) ==
    (p > 0 /\ s[p] \in WordChars) # (p < Len(s) /\ s[p + 1] \in WordChars)
\* WordAt with a fault: the pattern without re.IGNORECASE.
WordAtSameCase(s, p, w) ==
    /\ p + Len(w) <= Len(s)
    /\ \A j \in 1..Len(w) : s[p + j] = w[j]

\* the literal w at offset p, case-insensitively
WordAt(s, p, w) ==
    /\ p + Len(w) <= Len(s)
    /\ \A j \in 1..Len(w) : Lower(s[p + j]) = Lower(w[j])
\* FORBIDDEN matches at offset p
ForbiddenAt(s, p) ==
    \E w \in ForbiddenWords :
        WordBoundary(s, p) /\ WordAt(s, p, w) /\ WordBoundary(s, p + Len(w))
\* FORBIDDEN.search(s) is not None
FORBIDDEN_search(s) == \E p \in 0..Len(s) : ForbiddenAt(s, p)

(***************************************************************************)
(* _clean_and_validate_sql (main.py:66-84).  The outcome is a record:      *)
(* raised = FALSE and the returned str, or raised = TRUE and the message   *)
(* of the ValueError (its literal text, and for the first error the        *)
(* interpolated sql[:40]).                                                 *)
(***************************************************************************)
PreviewLen == 40
MsgNotSelect == "Only SELECT queries are allowed. Got: "
MsgForbidden ==
    "Detected forbidden SQL keyword (INSERT/UPDATE/DELETE/DROP/ALTER/TRUNCATE/CREATE)."
MsgMultiple == "Multiple statements are not allowed."

\* line 70: the text every check below looks at
CleanSql(sql) == Strip(RStripSemi(Strip(strip_code_fences(sql))))
\* line 73: sql.lower().startswith("select")
StartsSelect(s) == StartsWith(LowerStr(s), <<"s","e","l","e","c","t">>)
\* line 81: ";" in sql
HasSemicolon(s) == Contains(s, ";")

\* clean_and_validate_sql with a fault: the separator check before the keyword scan.
clean_and_validate_sql_separator_first(sql) ==
    LET s == CleanSql(sql)
    IN  IF ~StartsSelect(s)
        THEN [raised |-> TRUE, msg |-> MsgNotSelect,
              preview |-> Slice(s, 0, PreviewLen)]
        ELSE IF HasSemicolon(s)
        THEN [raised |-> TRUE, msg |-> MsgMultiple]
        ELSE IF FORBIDDEN_search(s)
        THEN [raised |-> TRUE, msg |-> MsgForbidden]
        ELSE [raised |-> FALSE, value |-> s]

clean_and_validate_sql(sql) ==
    LET s == CleanSql(sql)
    IN  IF ~StartsSelect(s)
        THEN [raised |-> TRUE, msg |-> MsgNotSelect,
              preview |-> Slice(s, 0, PreviewLen)]
        ELSE IF FORBIDDEN_search(s)
        THEN [raised |-> TRUE, msg |-> MsgForbidden]
        ELSE IF HasSemicolon(s)
        THEN [raised |-> TRUE, msg |-> MsgMultiple]
        ELSE [raised |-> FALSE, value |-> s]

(***************************************************************************)
(* The texts the model is run on: every concatenation of at most MaxFrags  *)
(* fragments.  The fragments are the pieces the checks of the validator    *)
(* react to, in mixed case: the SELECT keyword, a forbidden keyword,       *)
(* another word, a word character that is no letter, a character that is   *)
(* neither a word character nor whitespace, the fence marker and its       *)
(* language tag, the statement separator and whitespace.                   *)
(***************************************************************************)
Frags ==
    { <<"S","e","L","e","c","t">>, <<"d","R","o","P">>, <<"W","i","t","h">>,
      <<"_">>, <<"*">>,
      <<BT, BT, BT>>, <<"S","q","l">>, <<";">>, <<" ">>, <<"\n">> }

RECURSIVE Concats(_)
Concats(n) ==
    IF n = 0 THEN {<<>>}
    ELSE LET shorter == Concats(n - 1)
         IN  shorter \cup {s \o f : s \in shorter, f \in Frags}
Inputs == Concats(MaxFrags)

\* The model outputs of the concurrent runs: one that validates, one that is
\* rejected, one fenced with a trailing separator.
ConcInputs ==
    { <<"S","e","L","e","c","t">>,
      <<"d","R","o","P">>,
      <<BT, BT, BT, "S","e","L","e","c","t", ";", BT, BT, BT>> }

\* What the database returns for a statement: a sequence of at most MaxRows
\* rows, each one of two distinguishable rows.
RowIds == {"row_a", "row_b"}
RECURSIVE RowSeqs(_)
RowSeqs(n) ==
    IF n = 0 THEN {<<>>}
    ELSE LET shorter == RowSeqs(n - 1)
         IN  shorter \cup {Append(rs, i) : rs \in shorter, i \in RowIds}
RowSets == RowSeqs(MaxRows)

\* The exceptions a collaborator may raise (their str() goes into the message).
ChatErrors == {"ConnectionError", "ResponseError"}
ReplyErrors == {"KeyError", "AttributeError"}
DbErrors == {"OperationalError", "ProgrammingError"}
RowErrors == {"ResourceClosedError", "InterfaceError"}

\* A local variable of query_db_impl that is not assigned yet.
None == <<"None">>

(***************************************************************************)
(* State.                                                                  *)
(***************************************************************************)
VARIABLES
    pc,         \* pc[r]: where request r is in query_db_impl
    content,    \* content[r]: chat["message"]["content"], as the model sent it
    raw_sql,    \* raw_sql[r]: the local raw_sql
    sql,        \* sql[r]: the local sql
    rows,       \* rows[r]: the local rows
    exc,        \* exc[r]: the exception propagating out of the with block
    conn,       \* conn[r]: request r is inside `with engine.connect() as conn`
    checkedout, \* connections of the engine currently checked out
    returned,   \* returned[r]: the records query_db_impl returned to its caller
    calls,      \* calls[r]: the collaborators called so far, in order
    dbLog,      \* dbLog[r]: the statements handed to conn.execute
    arg,        \* the argument of the pure functions (SpecFn)
    fenced,     \* results of successive applications of _strip_code_fences
    vret        \* outcomes of _clean_and_validate_sql(arg)

vars == <<pc, content, raw_sql, sql, rows, exc, conn, checkedout, returned,
          calls, dbLog, arg, fenced, vret>>
reqVars == <<pc, content, raw_sql, sql, rows, exc, conn, checkedout, returned,
             calls, dbLog>>
fnVars == <<arg, fenced, vret>>

Reqs == DOMAIN pc

\* The state in which requests rs have entered query_db_impl (line 194).
InitReqs(rs) ==
    /\ pc = [r \in rs |-> "start"]
    /\ content = [r \in rs |-> None]
    /\ raw_sql = [r \in rs |-> None]
    /\ sql = [r \in rs |-> None]
    /\ rows = [r \in rs |-> None]
    /\ exc = [r \in rs |-> "none"]
    /\ conn = [r \in rs |-> FALSE]
    /\ checkedout = 0
    /\ returned = [r \in rs |-> <<>>]
    /\ calls = [r \in rs |-> <<>>]
    /\ dbLog = [r \in rs |-> <<>>]

\* Message prefixes of the three except handlers (lines 203, 208, 216).
PrefixGeneration == "Ollama call failed: "
PrefixValidation == "SQL validation failed: "
PrefixExecution == "DB execution failed: "

Record(f, r, v) == [f EXCEPT ![r] = v]
Called(r, what) == calls' = [calls EXCEPT ![r] = Append(@, what)]
Return(r, rec) == returned' = [returned EXCEPT ![r] = Append(@, rec)]

(***************************************************************************)
(* query_db_impl (main.py:188-216), one action per collaborator call.      *)
(***************************************************************************)
\* ChatReturns with a fault: raw_sql is the content as sent, without .strip().
ChatReturnsUnstripped(r, texts) ==
    /\ pc[r] = "start"
    /\ Called(r, "chat")
    /\ \E c \in texts :
          /\ content' = Record(content, r, c)
          /\ raw_sql' = Record(raw_sql, r, c)
    /\ pc' = Record(pc, r, "generated")
    /\ UNCHANGED <<sql, rows, exc, conn, checkedout, returned, dbLog, fnVars>>

\* lines 197-201: ollama.chat returns a reply whose content is a text of texts
ChatReturns(r, texts) ==
    /\ pc[r] = "start"
    /\ Called(r, "chat")
    /\ \E c \in texts :
          /\ content' = Record(content, r, c)
          /\ raw_sql' = Record(raw_sql, r, Strip(c))
    /\ pc' = Record(pc, r, "generated")
    /\ UNCHANGED <<sql, rows, exc, conn, checkedout, returned, dbLog, fnVars>>

\* lines 197-203: ollama.chat raises; the handler returns the failure
ChatRaises(r, e) ==
    /\ pc[r] = "start"
    /\ Called(r, "chat")
    /\ Return(r, [ok |-> FALSE, error |-> [prefix |-> PrefixGeneration, e |-> e]])
    /\ pc' = Record(pc, r, "done")
    /\ UNCHANGED <<content, raw_sql, sql, rows, exc, conn, checkedout, dbLog, fnVars>>

\* lines 201-203: the reply has no message.content str; the subscript or
\* .strip() raises inside the same try
ChatMalformed(r, e) ==
    /\ pc[r] = "start"
    /\ Called(r, "chat")
    /\ Return(r, [ok |-> FALSE, error |-> [prefix |-> PrefixGeneration, e |-> e]])
    /\ pc' = Record(pc, r, "done")
    /\ UNCHANGED <<content, raw_sql, sql, rows, exc, conn, checkedout, dbLog, fnVars>>

\* Validate with a fault: a rejected statement sends the request back to the model.
ValidateRetrying(r) ==
    /\ pc[r] = "generated"
    /\ Called(r, "validate")
    /\ LET v == clean_and_validate_sql(raw_sql[r])
       IN  IF v.raised
           THEN /\ pc' = Record(pc, r, "start")
                /\ sql' = sql
           ELSE /\ sql' = Record(sql, r, v.value)
                /\ pc' = Record(pc, r, "validated")
    /\ UNCHANGED <<content, raw_sql, rows, exc, conn, checkedout, returned, dbLog,
                   fnVars>>

\* lines 205-208
Validate(r) ==
    /\ pc[r] = "generated"
    /\ Called(r, "validate")
    /\ LET v == clean_and_validate_sql(raw_sql[r])
       IN  IF v.raised
           THEN /\ Return(r, [ok |-> FALSE,
                              error |-> [prefix |-> PrefixValidation, e |-> v],
                              llm_sql |-> raw_sql[r]])
                /\ pc' = Record(pc, r, "done")
                /\ sql' = sql
           ELSE /\ sql' = Record(sql, r, v.value)
                /\ pc' = Record(pc, r, "validated")
                /\ returned' = returned
    /\ UNCHANGED <<content, raw_sql, rows, exc, conn, checkedout, dbLog, fnVars>>

\* line 211: engine.connect() hands out a connection; the with block is entered
Connect(r) ==
    /\ pc[r] = "validated"
    /\ Called(r, "connect")
    /\ conn' = Record(conn, r, TRUE)
    /\ checkedout' = checkedout + 1
    /\ pc' = Record(pc, r, "connected")
    /\ UNCHANGED <<content, raw_sql, sql, rows, exc, returned, dbLog, fnVars>>

\* ConnectRaises with a fault: engine.connect() outside the try, its exception
\* leaves query_db_impl.
ConnectRaisesUncaught(r, e) ==
    /\ pc[r] = "validated"
    /\ Called(r, "connect")
    /\ exc' = Record(exc, r, e)
    /\ pc' = Record(pc, r, "raised")
    /\ UNCHANGED <<content, raw_sql, sql, rows, conn, checkedout, returned, dbLog,
                   fnVars>>

\* lines 211, 215-216: engine.connect() raises; no connection was handed out
ConnectRaises(r, e) ==
    /\ pc[r] = "validated"
    /\ Called(r, "connect")
    /\ Return(r, [ok |-> FALSE, error |-> [prefix |-> PrefixExecution, e |-> e],
                  sql |-> sql[r]])
    /\ pc' = Record(pc, r, "done")
    /\ UNCHANGED <<content, raw_sql, sql, rows, exc, conn, checkedout, dbLog, fnVars>>

\* line 212: conn.execute(text(sql)) returns a result
Execute(r) ==
    /\ pc[r] = "connected"
    /\ Called(r, "execute")
    /\ dbLog' = Record(dbLog, r, Append(dbLog[r], sql[r]))
    /\ pc' = Record(pc, r, "executed")
    /\ UNCHANGED <<content, raw_sql, sql, rows, exc, conn, checkedout, returned, fnVars>>

\* line 212: the database rejects the statement
ExecuteRaises(r, e) ==
    /\ pc[r] = "connected"
    /\ Called(r, "execute")
    /\ dbLog' = Record(dbLog, r, Append(dbLog[r], sql[r]))
    /\ exc' = Record(exc, r, e)
    /\ pc' = Record(pc, r, "unwinding")
    /\ UNCHANGED <<content, raw_sql, sql, rows, conn, checkedout, returned, fnVars>>

\* line 213: every row of the result is copied into a dict
Materialize(r, rs) ==
    /\ pc[r] = "executed"
    /\ rows' = Record(rows, r, rs)
    /\ pc' = Record(pc, r, "materialized")
    /\ UNCHANGED <<content, raw_sql, sql, exc, conn, checkedout, returned, calls,
                   dbLog, fnVars>>

\* line 213: fetching or converting a row raises
MaterializeRaises(r, e) ==
    /\ pc[r] = "executed"
    /\ exc' = Record(exc, r, e)
    /\ pc' = Record(pc, r, "unwinding")
    /\ UNCHANGED <<content, raw_sql, sql, rows, conn, checkedout, returned, calls,
                   dbLog, fnVars>>

\* end of the with block (after line 213): the connection goes back
ExitWith(r) ==
    /\ pc[r] = "materialized"
    /\ conn' = Record(conn, r, FALSE)
    /\ checkedout' = checkedout - 1
    /\ pc' = Record(pc, r, "returning")
    /\ UNCHANGED <<content, raw_sql, sql, rows, exc, returned, calls, dbLog, fnVars>>

\* ExitWithRaising with a fault: the connection is closed on the normal path
\* only; an exception leaves it checked out.
ExitWithRaisingLeaking(r) ==
    /\ pc[r] = "unwinding"
    /\ pc' = Record(pc, r, "handling")
    /\ UNCHANGED <<content, raw_sql, sql, rows, exc, conn, checkedout, returned,
                   calls, dbLog, fnVars>>

\* the with block is left by an exception: the connection goes back, then
\* the exception reaches the handler of line 215
ExitWithRaising(r) ==
    /\ pc[r] = "unwinding"
    /\ conn' = Record(conn, r, FALSE)
    /\ checkedout' = checkedout - 1
    /\ pc' = Record(pc, r, "handling")
    /\ UNCHANGED <<content, raw_sql, sql, rows, exc, returned, calls, dbLog, fnVars>>

\* line 214
ReturnSuccess(r) ==
    /\ pc[r] = "returning"
    /\ Return(r, [ok |-> TRUE, sql |-> sql[r], rows |-> rows[r]])
    /\ pc' = Record(pc, r, "done")
    /\ UNCHANGED <<content, raw_sql, sql, rows, exc, conn, checkedout, calls,
                   dbLog, fnVars>>

\* lines 215-216
ReturnExecFailure(r) ==
    /\ pc[r] = "handling"
    /\ Return(r, [ok |-> FALSE, error |-> [prefix |-> PrefixExecution, e |-> exc[r]],
                  sql |-> sql[r]])
    /\ pc' = Record(pc, r, "done")
    /\ UNCHANGED <<content, raw_sql, sql, rows, exc, conn, checkedout, calls,
                   dbLog, fnVars>>

(***************************************************************************)
(* Spec: one request, the model answering with any text of Inputs.         *)
(***************************************************************************)
NoFn == arg = <<>> /\ fenced = <<>> /\ vret = <<>>
Init == InitReqs({1}) /\ NoFn
Next ==
    \/ \E r \in Reqs : ChatReturns(r, Inputs)
    \/ \E r \in Reqs : \E e \in ChatErrors : ChatRaises(r, e)
    \/ \E r \in Reqs : \E e \in ReplyErrors : ChatMalformed(r, e)
    \/ \E r \in Reqs : Validate(r)
    \/ \E r \in Reqs : Connect(r)
    \/ \E r \in Reqs : \E e \in DbErrors : ConnectRaises(r, e)
    \/ \E r \in Reqs : Execute(r)
    \/ \E r \in Reqs : \E e \in DbErrors : ExecuteRaises(r, e)
    \/ \E r \in Reqs : \E rs \in RowSets : Materialize(r, rs)
    \/ \E r \in Reqs : \E e \in RowErrors : MaterializeRaises(r, e)
    \/ \E r \in Reqs : ExitWith(r)
    \/ \E r \in Reqs : ExitWithRaising(r)
    \/ \E r \in Reqs : ReturnSuccess(r)
    \/ \E r \in Reqs : ReturnExecFailure(r)
Spec == Init /\ [][Next]_vars

(***************************************************************************)
(* SpecConc: NReq requests interleaved, sharing the engine; the model      *)
(* answers each with a text of ConcInputs.                                 *)
(***************************************************************************)
InitConc == InitReqs(1..NReq) /\ NoFn
NextConc ==
    \/ \E r \in Reqs : ChatReturns(r, ConcInputs)
    \/ \E r \in Reqs : \E e \in ChatErrors : ChatRaises(r, e)
    \/ \E r \in Reqs : \E e \in ReplyErrors : ChatMalformed(r, e)
    \/ \E r \in Reqs : Validate(r)
    \/ \E r \in Reqs : Connect(r)
    \/ \E r \in Reqs : \E e \in DbErrors : ConnectRaises(r, e)
    \/ \E r \in Reqs : Execute(r)
    \/ \E r \in Reqs : \E e \in DbErrors : ExecuteRaises(r, e)
    \/ \E r \in Reqs : \E rs \in RowSets : Materialize(r, rs)
    \/ \E r \in Reqs : \E e \in RowErrors : MaterializeRaises(r, e)
    \/ \E r \in Reqs : ExitWith(r)
    \/ \E r \in Reqs : ExitWithRaising(r)
    \/ \E r \in Reqs : ReturnSuccess(r)
    \/ \E r \in Reqs : ReturnExecFailure(r)
SpecConc == InitConc /\ [][NextConc]_vars

(***************************************************************************)
(* SpecFn: the pure functions applied to every text of Inputs.             *)
(***************************************************************************)
InitFn == InitReqs({}) /\ arg \in Inputs /\ fenced = <<>> /\ vret = <<>>
\* _strip_code_fences applied to arg, then to its own result
ApplyStripFences ==
    /\ Len(fenced) < 2
    /\ fenced' = Append(fenced,
                    strip_code_fences(IF fenced = <<>> THEN arg ELSE fenced[Len(fenced)]))
    /\ UNCHANGED <<arg, vret, reqVars>>
\* _clean_and_validate_sql applied to arg
ApplyValidate ==
    /\ vret = <<>>
    /\ vret' = <<clean_and_validate_sql(arg)>>
    /\ UNCHANGED <<arg, fenced, reqVars>>
NextFn == ApplyStripFences \/ ApplyValidate
SpecFn == InitFn /\ [][NextFn]_vars

(***************************************************************************)
(* Terms of the claims, stated on their own (not through the operators     *)
(* that model the code).                                                   *)
(***************************************************************************)
SetMin(S) == CHOOSE x \in S : \A y \in S : x <= y
SetMax(S) == CHOOSE x \in S : \A y \in S : y <= x
\* s without its leading and trailing whitespace
Trimmed(s) ==
    LET solid == {i \in 1..Len(s) : s[i] \notin Whitespace}
    IN  IF solid = {} THEN <<>> ELSE SubSeq(s, SetMin(solid), SetMax(solid))
\* s without its whole run of trailing ';'
WithoutTrailingSemis(s) ==
    LET solid == {i \in 1..Len(s) : s[i] # ";"}
    IN  IF solid = {} THEN <<>> ELSE SubSeq(s, 1, SetMax(solid))
\* s without one trailing ';', if it has one
WithoutOneTrailingSemi(s) ==
    IF Len(s) > 0 /\ s[Len(s)] = ";" THEN SubSeq(s, 1, Len(s) - 1) ELSE s
\* the forbidden set, in lower case
KeywordsLower ==
    { <<"i","n","s","e","r","t">>, <<"u","p","d","a","t","e">>,
      <<"d","e","l","e","t","e">>, <<"d","r","o","p">>,
      <<"a","l","t","e","r">>, <<"t","r","u","n","c","a","t","e">>,
      <<"c","r","e","a","t","e">> }
\* the keyword w, in any case, fills s[i..j]
KeywordIn(s, i, j, w) ==
    j - i + 1 = Len(w) /\ \A k \in 1..Len(w) : Lower(s[i + k - 1]) = w[k]
\* s[i..j] is delimited by non-word characters or the ends of s
Delimited(s, i, j) ==
    /\ (i = 1 \/ s[i - 1] \notin WordChars)
    /\ (j = Len(s) \/ s[j + 1] \notin WordChars)
\* s has a case-insensitive, word-bounded occurrence of a forbidden keyword
HasBoundedKeyword(s) ==
    \E w \in KeywordsLower : \E i \in 1..Len(s) - Len(w) + 1 :
        KeywordIn(s, i, i + Len(w) - 1, w) /\ Delimited(s, i, i + Len(w) - 1)
\* s has a forbidden keyword as a substring, in any case
HasKeywordSubstring(s) ==
    \E w \in KeywordsLower : \E i \in 1..Len(s) - Len(w) + 1 :
        KeywordIn(s, i, i + Len(w) - 1, w)
\* the first word of s: its longest prefix of word characters
FirstWord(s) ==
    LET stops == {i \in 1..Len(s) : s[i] \notin WordChars}
    IN  IF stops = {} THEN s ELSE SubSeq(s, 1, SetMin(stops) - 1)
SelectLower == <<"s","e","l","e","c","t">>
\* s begins with the six letters of SELECT, in any case
BeginsWithSelect(s) == Len(s) >= 6 /\ LowerStr(SubSeq(s, 1, 6)) = SelectLower
HasFence(s) == \E i \in 1..Len(s) : s[i] = BT
HasSemi(s) == \E i \in 1..Len(s) : s[i] = ";"
\* the records a request returned
IsFailure(rec, prefix) == ~rec.ok /\ rec.error.prefix = prefix
PipelineOrder == <<"chat", "validate", "connect", "execute">>
IsPrefix(s, t) == Len(s) <= Len(t) /\ s = SubSeq(t, 1, Len(s))

(***************************************************************************)
(* Claims about the validator and the sanitizer, checked under SpecFn.     *)
(***************************************************************************)
\* the outcome of the validator on arg, once it has been applied
Validated == vret # <<>>
Outcome == vret[1]
\* the CandidateStatement of arg: its text after fence stripping and trimming
Candidate == Trimmed(strip_code_fences(arg))

\* C2 (as claimed): whenever the first word of the cleaned statement is not
\* exactly SELECT, in any case, validation fails with the not-a-SELECT error
\* carrying the first 40 characters of the statement.
C2_FirstWordGate ==
    Validated =>
        LET s == CleanSql(arg)
        IN  LowerStr(FirstWord(s)) # SelectLower =>
                /\ Outcome.raised
                /\ Outcome.msg = MsgNotSelect
                /\ Outcome.preview = SubSeq(s, 1, IF Len(s) < 40 THEN Len(s) ELSE 40)

\* C3 (as claimed): every statement with a word-bounded forbidden keyword
\* fails with the forbidden-keyword error, whatever its prefix.
C3_AlwaysForbiddenError ==
    Validated /\ HasBoundedKeyword(arg) =>
        Outcome.raised /\ Outcome.msg = MsgForbidden

\* C3 (amended): a statement with a word-bounded forbidden keyword is never
\* accepted; it fails with the forbidden-keyword error when its cleaned text
\* begins with SELECT, even if it also has a stray ';', and with the
\* not-a-SELECT error otherwise.
C3_Soundness ==
    Validated /\ HasBoundedKeyword(arg) =>
        /\ Outcome.raised
        /\ IF BeginsWithSelect(CleanSql(arg))
           THEN Outcome.msg = MsgForbidden
           ELSE Outcome.msg = MsgNotSelect

\* C3 witness: SELECT prefix, a bounded keyword and a stray ';' together.
C3_Witness ==
    /\ Validated /\ HasBoundedKeyword(arg)
    /\ BeginsWithSelect(CleanSql(arg)) /\ HasSemi(CleanSql(arg))
    /\ Outcome.raised /\ Outcome.msg = MsgForbidden

\* C4 (as claimed): exactly one trailing ';' is removed; a text that starts
\* with SELECT and has no forbidden keyword fails with the multiple-statements
\* error if a ';' remains, and is otherwise returned minus that one separator.
C4_OneSeparatorRemoved ==
    LET s == Trimmed(WithoutOneTrailingSemi(Candidate))
    IN  Validated /\ BeginsWithSelect(s) /\ ~HasBoundedKeyword(s) =>
            IF HasSemi(s)
            THEN Outcome.raised /\ Outcome.msg = MsgMultiple
            ELSE ~Outcome.raised /\ Outcome.value = s

\* C4 (amended): the whole run of trailing ';' is removed; a text that starts
\* with SELECT and has no forbidden keyword fails with the multiple-statements
\* error if a ';' remains after that, and is otherwise returned minus its
\* trailing separators and surrounding whitespace.
C4_SingleStatementGate ==
    LET s == Trimmed(WithoutTrailingSemis(Candidate))
    IN  Validated /\ BeginsWithSelect(s) /\ ~HasBoundedKeyword(s) =>
            IF HasSemi(s)
            THEN Outcome.raised /\ Outcome.msg = MsgMultiple
            ELSE ~Outcome.raised /\ Outcome.value = s

\* C4 witness: a text ending in two ';' is accepted without them.
C4_Witness ==
    /\ Validated /\ ~Outcome.raised
    /\ Len(Candidate) >= 2
    /\ Candidate[Len(Candidate)] = ";" /\ Candidate[Len(Candidate) - 1] = ";"
    /\ Outcome.value = WithoutTrailingSemis(Candidate)

\* C5 (as claimed): fence stripping is idempotent.
C5_StripIdempotent ==
    Len(fenced) = 2 => fenced[2] = fenced[1]

\* C10: a fence-free statement that starts with SELECT, has no ';' and has a
\* forbidden keyword only inside a longer identifier is accepted and returned
\* trimmed; the forbidden-keyword error is raised only when the cleaned
\* statement has a keyword delimited by non-word characters or its ends.
C10_WordBoundary ==
    Validated =>
        /\ ( /\ ~HasFence(arg) /\ ~HasSemi(arg)
             /\ BeginsWithSelect(Trimmed(arg))
             /\ HasKeywordSubstring(arg) /\ ~HasBoundedKeyword(arg) )
           => (~Outcome.raised /\ Outcome.value = Trimmed(arg))
        /\ (Outcome.raised /\ Outcome.msg = MsgForbidden)
           => HasBoundedKeyword(CleanSql(arg))

\* C10 witness: a keyword followed by an underscore, after SELECT, accepted.
C10_Witness ==
    /\ Validated /\ ~Outcome.raised
    /\ ~HasFence(arg) /\ HasKeywordSubstring(arg)
    /\ \E i \in 2..Len(arg) - 1 :
          arg[i] \in Whitespace /\ Lower(arg[i + 1]) = "d"
    /\ Outcome.value = Trimmed(arg)

(***************************************************************************)
(* Claims about query_db_impl, checked under Spec (one request, every      *)
(* model output) and SpecConc (interleaved requests).                      *)
(***************************************************************************)
\* C1: the database is handed a statement only if the validator returned
\* normally on the request's model output; the statement is exactly the
\* value the validator returned, and it has no ';' and no case-insensitive,
\* word-bounded forbidden keyword.
C1_OnlyValidatedExecuted ==
    \A r \in Reqs : \A k \in 1..Len(dbLog[r]) :
        /\ \E i \in 1..Len(calls[r]) : \E j \in i + 1..Len(calls[r]) :
              calls[r][i] = "validate" /\ calls[r][j] = "execute"
        /\ LET v == clean_and_validate_sql(raw_sql[r])
           IN  ~v.raised /\ dbLog[r][k] = v.value
        /\ ~HasSemi(dbLog[r][k])
        /\ ~HasBoundedKeyword(dbLog[r][k])

\* C1 witness: a fenced output with a trailing separator reached the database
\* as its validated statement, without the fence and the separator.
C1_Witness ==
    \E r \in Reqs :
        /\ dbLog[r] # <<>>
        /\ HasFence(content[r]) /\ HasSemi(content[r])
        /\ dbLog[r][1] # raw_sql[r]
        /\ BeginsWithSelect(dbLog[r][1])

\* C6 (as claimed): the llm_sql of a validation failure is the text the model
\* returned, character for character.
C6_RawTextUnmodified ==
    \A r \in Reqs : \A k \in 1..Len(returned[r]) :
        IsFailure(returned[r][k], PrefixValidation) =>
            returned[r][k].llm_sql = content[r]

\* C6 (amended): the llm_sql of a validation failure is the text the model
\* returned with its leading and trailing whitespace removed, and no fence
\* stripping or separator removal applied.
C6_TrimmedTextPreserved ==
    \A r \in Reqs : \A k \in 1..Len(returned[r]) :
        IsFailure(returned[r][k], PrefixValidation) =>
            /\ "llm_sql" \in DOMAIN returned[r][k]
            /\ returned[r][k].llm_sql = Trimmed(content[r])

\* C6 witness: a rejected output with surrounding whitespace, a fence and a
\* separator; the last two are still in llm_sql.
C6_Witness ==
    \E r \in Reqs :
        /\ returned[r] # <<>>
        /\ IsFailure(returned[r][1], PrefixValidation)
        /\ returned[r][1].llm_sql # content[r]
        /\ HasFence(returned[r][1].llm_sql) /\ HasSemi(returned[r][1].llm_sql)

\* C7: the collaborators are called in pipeline order, each at most once and
\* the model exactly once; validation only after the model call succeeded,
\* the database only after validation succeeded; a failed model call ends the
\* request as a generation failure with no validator or database call.
C7_LinearPipeline ==
    \A r \in Reqs :
        /\ IsPrefix(calls[r], PipelineOrder)
        /\ (pc[r] # "start" => Len(calls[r]) >= 1)
        /\ (Len(calls[r]) >= 2 => content[r] # None /\ raw_sql[r] # None)
        /\ (Len(calls[r]) >= 3 =>
               sql[r] # None /\ ~clean_and_validate_sql(raw_sql[r]).raised)
        /\ Len(dbLog[r]) <= 1
        /\ (dbLog[r] # <<>> <=> Len(calls[r]) = 4)
        /\ (pc[r] # "start" /\ content[r] = None =>
               /\ pc[r] = "done"
               /\ Len(returned[r]) = 1
               /\ IsFailure(returned[r][1], PrefixGeneration))
        /\ \A k \in 1..Len(returned[r]) :
               IsFailure(returned[r][k], PrefixGeneration) =>
                   calls[r] = <<"chat">> /\ dbLog[r] = <<>>

\* C7 witness: a request that went through all four calls and returned rows.
C7_Witness ==
    \E r \in Reqs :
        /\ pc[r] = "done" /\ calls[r] = PipelineOrder
        /\ returned[r][1].ok /\ returned[r][1].rows # <<>>

\* the places of query_db_impl a request can be at
Places ==
    {"start", "generated", "validated", "connected", "executed", "materialized",
     "unwinding", "returning", "handling", "done"}
\* the stage of the collaborator called last
StageOfLastCall(r) ==
    LET last == calls[r][Len(calls[r])]
    IN  IF last = "chat" THEN PrefixGeneration
        ELSE IF last = "validate" THEN PrefixValidation
        ELSE PrefixExecution
WellFormed(r, rec) ==
    IF rec.ok
    THEN /\ DOMAIN rec = {"ok", "sql", "rows"}
         /\ rec.sql = dbLog[r][1]
         /\ rec.rows \in RowSets /\ rec.rows = rows[r]
    ELSE /\ {"ok", "error"} \subseteq DOMAIN rec
         /\ DOMAIN rec \subseteq {"ok", "error", "llm_sql", "sql"}
         /\ rec.error.prefix = StageOfLastCall(r)

\* C8: no exception leaves query_db_impl; a request that is over has returned
\* exactly one record, a Success with the statement and the rows or a Failure
\* of the stage in which the error occurred; a running request none.
C8_NoFaultEscapes ==
    \A r \in Reqs :
        /\ pc[r] \in Places
        /\ Len(returned[r]) = (IF pc[r] = "done" THEN 1 ELSE 0)
        /\ \A k \in 1..Len(returned[r]) : WellFormed(r, returned[r][k])

\* C8 witness: row materialization failed after the statement was executed,
\* and the request returned an execution failure.
C8_Witness ==
    \E r \in Reqs :
        /\ pc[r] = "done" /\ dbLog[r] # <<>> /\ rows[r] = None
        /\ IsFailure(returned[r][1], PrefixExecution)

InExecution(r) == pc[r] \in {"connected", "executed", "materialized", "unwinding"}

\* C9: with requests interleaved, a request holds a connection exactly while
\* it is in its execution stage; one that failed at generation or validation
\* never asked for one; the rows are materialized before the connection is
\* released; a request that returned holds none, so that once all have
\* returned no connection is checked out.
C9_ScopedConnection ==
    /\ \A r \in Reqs :
          /\ conn[r] <=> InExecution(r)
          /\ (pc[r] = "done" => ~conn[r])
          /\ (pc[r] = "returning" => rows[r] # None)
          /\ \A k \in 1..Len(returned[r]) :
                /\ returned[r][k].ok => rows[r] # None
                /\ ( \/ IsFailure(returned[r][k], PrefixGeneration)
                     \/ IsFailure(returned[r][k], PrefixValidation) )
                   => \A i \in 1..Len(calls[r]) : calls[r][i] # "connect"
    /\ checkedout = Cardinality({r \in Reqs : conn[r]})
    /\ ((\A r \in Reqs : pc[r] = "done") => checkedout = 0)

\* C9 witness: all requests returned, one with rows and one with an execution
\* failure raised inside the with block.
C9_Witness ==
    /\ \A r \in Reqs : pc[r] = "done"
    /\ \E r \in Reqs : returned[r][1].ok
    /\ \E r \in Reqs :
          IsFailure(returned[r][1], PrefixExecution) /\ dbLog[r] # <<>>
    /\ checkedout = 0

====
